---- MODULE Spec2Model ----
(***************************************************************************)
(* Model of the Log component of termscp                                   *)
(* (src/ui/activities/filetransfer/components/log.rs).                     *)
(*                                                                         *)
(* The component owns `props` (of which only the Content table and the     *)
(* Focus flag are modelled; a table is represented by its number of rows,  *)
(* the only thing the component reads from it) and `states`, the OwnStates *)
(* record (list_index, list_len, focus).  list_index and list_len are      *)
(* usize; every arithmetic step of the code is guarded so that no value    *)
(* leaves 0..list_len, hence plain naturals are used.                      *)
(*                                                                         *)
(* `last`, `prev`, `origin` and `streak` are observation variables: the     *)
(* last call made on the component with its result, the navigation command *)
(* of the call before it and the index that call started from, and the run *)
(* of identical commands the last call ends.                               *)
(***************************************************************************)
EXTENDS Naturals, Sequences, FiniteSets

VARIABLES props, states, last, prev, origin, streak

\* The Title component (src/ui/layout/components/title.rs): the component
\* itself (props and states), the last call made on it, and which of active()
\* and blur() was called last ("" when neither was).
VARIABLES title, title_last, title_focus_call

log_vars == <<props, states, last, prev, origin, streak>>
title_vars == <<title, title_last, title_focus_call>>
vars == <<props, states, last, prev, origin, streak,
          title, title_last, title_focus_call>>

\* Largest number of rows of a content table.
MaxRows == 20

\* Calls without effect counted in a run of identical commands (the count
\* saturates here).
MaxIdle == 2

\* (0..8) of the two Scroll branches of perform.
ScrollStep == 8

-----------------------------------------------------------------------------
\* Values of the tuirealm types the component handles.

Table(n) == <<"Table", n>>
Flag(b) == <<"Flag", b>>
unwrap_table(v) == v[2]

\* State::One(StateValue::Usize(i))
StateOne(i) == <<"One", <<"Usize", i>>>>

CmdResultChanged(st) == <<"Changed", st>>
CmdResultNone == <<"None">>

\* Option<Msg>
SomeMsgNone == <<"Some", <<"None">>>>
SomeLogTabbed == <<"Some", <<"Ui", "LogTabbed">>>>
NoMsg == <<"None">>

NavCmds == {"MoveDown", "MoveUp", "ScrollDown", "ScrollUp", "GoToBegin", "GoToEnd"}
\* Cmd::Submit stands for the commands of the `_` arm of perform.
Cmds == NavCmds \cup {"Submit"}

NavKeys == {"Up", "Down", "PageUp", "PageDown", "Home", "End"}
\* Key::Enter and Event::Tick stand for the events of the `_` arm of on.
Events == NavKeys \cup {"Tab", "Enter", "Tick"}

-----------------------------------------------------------------------------
\* OwnStates

OwnStatesDefault == [list_index |-> 0, list_len |-> 0, focus |-> FALSE]

set_list_len(s, len) == [s EXCEPT !.list_len = len]

get_list_index(s) == s.list_index

\* incr_list_index without its check for the last element.
incr_list_index_unchecked(s) == [s EXCEPT !.list_index = s.list_index + 1]

\* incr_list_index with <= for <.
incr_list_index_le(s) ==
  IF s.list_index + 1 <= s.list_len
    THEN [s EXCEPT !.list_index = s.list_index + 1]
    ELSE s

\* incr_list_index that wraps to the first element at the last one.
incr_list_index_wrap(s) ==
  IF s.list_index + 1 < s.list_len
    THEN [s EXCEPT !.list_index = s.list_index + 1]
    ELSE [s EXCEPT !.list_index = 0]

incr_list_index(s) ==
  IF s.list_index + 1 < s.list_len
    THEN [s EXCEPT !.list_index = s.list_index + 1]
    ELSE s

\* decr_list_index with the check off by one.
decr_list_index_gt1(s) ==
  IF s.list_index > 1
    THEN [s EXCEPT !.list_index = s.list_index - 1]
    ELSE s

\* decr_list_index that goes to the first element.
decr_list_index_to_first(s) ==
  IF s.list_index > 0
    THEN [s EXCEPT !.list_index = 0]
    ELSE s

decr_list_index(s) ==
  IF s.list_index > 0
    THEN [s EXCEPT !.list_index = s.list_index - 1]
    ELSE s

\* list_index_at_last without the - 1.
list_index_at_len(s) == [s EXCEPT !.list_index = s.list_len]

list_index_at_last(s) ==
  [s EXCEPT !.list_index = IF s.list_len = 0 THEN 0 ELSE s.list_len - 1]

\* reset_list_index that leaves the index of a non-empty list alone.
reset_list_index_if_empty(s) ==
  [s EXCEPT !.list_index = IF s.list_len = 0 THEN 0 ELSE @]

reset_list_index(s) == [s EXCEPT !.list_index = 0]

-----------------------------------------------------------------------------
\* Props

props_set(p, attr, value) ==
  [a \in DOMAIN p \cup {attr} |-> IF a = attr THEN value ELSE p[a]]

\* Props::get: Some(value) as <<value>>, None as <<>>.
props_get(p, attr) == IF attr \in DOMAIN p THEN <<p[attr]>> ELSE <<>>

-----------------------------------------------------------------------------
\* MockComponent for Log

\* Log::new(lines, fg, bg)
LogNew(lines) ==
  [props |-> props_set(<<>>, "Content", Table(lines)),
   states |-> OwnStatesDefault]

state(s) == StateOne(get_list_index(s))

\* Log::view: the list handed to the renderer, as the number of its items
\* (one per row of the content) and the position selected in it.
view(p, s) ==
  [items |-> unwrap_table(props_get(p, "Content")[1]),
   selected |-> <<get_list_index(s)>>]

\* attr that keeps the index over a content update when it is still in range.
attr_keep_index(p, s, a, value) ==
  LET p1 == props_set(p, a, value)
      got == props_get(p1, "Content")
      len == IF got # <<>> THEN unwrap_table(got[1]) ELSE 0
      s1 == set_list_len(s, len)
  IN IF a = "Content"
       THEN [props |-> p1,
             states |-> IF s1.list_index < len THEN s1 ELSE reset_list_index(s1)]
       ELSE [props |-> p1, states |-> s]

\* attr without the matches!(attr, Attribute::Content) check.
attr_any_resets(p, s, a, value) ==
  LET p1 == props_set(p, a, value)
      got == props_get(p1, "Content")
      len == IF got # <<>> THEN unwrap_table(got[1]) ELSE 0
  IN [props |-> p1, states |-> reset_list_index(set_list_len(s, len))]

attr(p, s, a, value) ==
  LET p1 == props_set(p, a, value)
      got == props_get(p1, "Content")
      len == IF got # <<>> THEN unwrap_table(got[1]) ELSE 0
  IN IF a = "Content"
       THEN [props |-> p1, states |-> reset_list_index(set_list_len(s, len))]
       ELSE [props |-> p1, states |-> s]

\* cmd_result without the comparison with the previous index.
cmd_result_always(before, s) == CmdResultChanged(state(s))

\* if prev != self.states.get_list_index() { Changed(self.state()) } else { None }
cmd_result(before, s) ==
  IF before # get_list_index(s) THEN CmdResultChanged(state(s)) ELSE CmdResultNone

\* incr_times and decr_times with one round less.
RECURSIVE incr_times_short(_, _)
incr_times_short(n, s) ==
  IF n <= 1 THEN s ELSE incr_times_short(n - 1, incr_list_index(s))

RECURSIVE decr_times_short(_, _)
decr_times_short(n, s) ==
  IF n <= 1 THEN s ELSE decr_times_short(n - 1, decr_list_index(s))

RECURSIVE incr_times(_, _)
incr_times(n, s) == IF n = 0 THEN s ELSE incr_times(n - 1, incr_list_index(s))

RECURSIVE decr_times(_, _)
decr_times(n, s) == IF n = 0 THEN s ELSE decr_times(n - 1, decr_list_index(s))

\* perform_states whose `_` arm resets the index.
perform_states_other_resets(cmd, s) ==
  CASE cmd = "MoveDown"   -> incr_list_index(s)
    [] cmd = "MoveUp"     -> decr_list_index(s)
    [] cmd = "ScrollDown" -> incr_times(ScrollStep, s)
    [] cmd = "ScrollUp"   -> decr_times(ScrollStep, s)
    [] cmd = "GoToBegin"  -> reset_list_index(s)
    [] cmd = "GoToEnd"    -> list_index_at_last(s)
    [] OTHER              -> reset_list_index(s)

perform_states(cmd, s) ==
  CASE cmd = "MoveDown"   -> incr_list_index(s)
    [] cmd = "MoveUp"     -> decr_list_index(s)
    [] cmd = "ScrollDown" -> incr_times(ScrollStep, s)
    [] cmd = "ScrollUp"   -> decr_times(ScrollStep, s)
    [] cmd = "GoToBegin"  -> reset_list_index(s)
    [] cmd = "GoToEnd"    -> list_index_at_last(s)
    [] OTHER              -> s

perform(cmd, s) ==
  LET before == get_list_index(s)
      s1 == perform_states(cmd, s)
  IN [states |-> s1,
      ret |-> IF cmd \in NavCmds THEN cmd_result(before, s1) ELSE CmdResultNone]

-----------------------------------------------------------------------------
\* Component<Msg, NoUserEvent> for Log

\* on_cmd with each key performing the command of its name.
on_cmd_by_name(ev) ==
  CASE ev = "Up"       -> "MoveUp"
    [] ev = "Down"     -> "MoveDown"
    [] ev = "PageUp"   -> "ScrollUp"
    [] ev = "PageDown" -> "ScrollDown"
    [] ev = "End"      -> "GoToEnd"
    [] ev = "Home"     -> "GoToBegin"
    [] OTHER           -> ""

\* The command each key arm of on hands to perform ("" when it performs none).
on_cmd(ev) ==
  CASE ev = "Up"       -> "MoveDown"
    [] ev = "Down"     -> "MoveUp"
    [] ev = "PageUp"   -> "ScrollDown"
    [] ev = "PageDown" -> "ScrollUp"
    [] ev = "End"      -> "GoToBegin"
    [] ev = "Home"     -> "GoToEnd"
    [] OTHER           -> ""

\* on_msg that hands the result of perform on to the caller.
on_msg_forward(ev, res) ==
  CASE ev \in NavKeys -> IF res = CmdResultNone THEN SomeMsgNone ELSE <<"Some", res>>
    [] ev = "Tab"     -> SomeLogTabbed
    [] OTHER          -> NoMsg

\* on_msg whose Tab arm returns what the navigation arms return.
on_msg_tab_none(ev, res) ==
  CASE ev \in NavKeys -> SomeMsgNone
    [] ev = "Tab"     -> SomeMsgNone
    [] OTHER          -> NoMsg

\* The message an arm of on returns; res is the CmdResult of its perform call.
on_msg(ev, res) ==
  CASE ev \in NavKeys -> SomeMsgNone
    [] ev = "Tab"     -> SomeLogTabbed
    [] OTHER          -> NoMsg

on(ev, s) ==
  LET r == perform(on_cmd(ev), s)
  IN IF ev \in NavKeys
       THEN [states |-> r.states, ret |-> on_msg(ev, r.ret)]
       ELSE [states |-> s, ret |-> on_msg(ev, CmdResultNone)]

-----------------------------------------------------------------------------
\* Component for Title

\* The props a Title is given: whether it is visible and its title text
\* (Option<String>, None as <<>>).
TitleProps == [visible : BOOLEAN, title : {<<>>, <<"Title">>, <<"termscp">>}]

\* InputEvent: the key events and the events that are no key.
TitleKeys == {"Delete", "Enter", "Tab", "Char(a)"}
TitleEvents == {<<"Key", k>> : k \in TitleKeys} \cup {<<"Mouse">>, <<"Resize">>}

MsgNone == <<"None">>
MsgOnKey(key) == <<"OnKey", key>>
PayloadNone == <<"None">>

TitleOwnStatesDefault == [focus |-> FALSE]

TitleNew(p) == [props |-> p, states |-> TitleOwnStatesDefault]

title_render(t) ==
  IF t.props.visible
    THEN <<"Paragraph", IF t.props.title = <<>> THEN "" ELSE t.props.title[1]>>
    ELSE <<>>

\* title_update that builds the component anew.
title_update_renews(t, p) == [self |-> TitleNew(p), ret |-> MsgNone]

title_update(t, p) == [self |-> [t EXCEPT !.props = p], ret |-> MsgNone]

title_get_props(t) == t.props

\* title_on that, as its comment has it, returns None when not in focus.
title_on_focused(t, ev) ==
  [self |-> t,
   ret |-> IF ev[1] = "Key" /\ t.states.focus THEN MsgOnKey(ev[2]) ELSE MsgNone]

title_on(t, ev) ==
  [self |-> t, ret |-> IF ev[1] = "Key" THEN MsgOnKey(ev[2]) ELSE MsgNone]

title_get_value(t) == PayloadNone

title_blur(t) == [t EXCEPT !.states.focus = FALSE]

title_active(t) == [t EXCEPT !.states.focus = TRUE]

-----------------------------------------------------------------------------
\* Observation of the calls.

\* A call on the component: the method, its argument (attribute, command or
\* event) and value, the navigation command it performed ("" when none), the
\* OwnStates before and after it, and what it returned.
Call(op, arg, val, cmd, pre, post, ret) ==
  [op |-> op, arg |-> arg, val |-> val, cmd |-> cmd,
   pre |-> pre, post |-> post, ret |-> ret]

NoStreak == [cmd |-> "", start |-> OwnStatesDefault, changed |-> 0, idle |-> 0]

\* The run of consecutive calls performing `cmd`, after one more of them took
\* the states from `pre` to `post`: the states the run started from, how many
\* of its calls moved the index and how many did not.
Streak(cmd, pre, post) ==
  LET c == IF pre.list_index # post.list_index THEN 1 ELSE 0
      i == 1 - c
  IN IF cmd = streak.cmd
       THEN [streak EXCEPT
               !.changed = @ + c,
               !.idle = IF @ + i <= MaxIdle THEN @ + i ELSE @]
       ELSE [cmd |-> cmd, start |-> pre, changed |-> c, idle |-> i]

\* The step of the observation variables for call c.
Observe(c) ==
  /\ last' = c
  /\ prev' = IF c.cmd # "" THEN last.cmd ELSE ""
  /\ origin' = IF c.cmd # "" /\ last.cmd # "" THEN last.pre.list_index ELSE 0
  /\ streak' = IF c.cmd # "" THEN Streak(c.cmd, c.pre, c.post) ELSE NoStreak

-----------------------------------------------------------------------------
LogInit(lines) ==
  /\ props = LogNew(lines).props
  /\ states = LogNew(lines).states
  /\ last = Call("new", "", Table(lines), "", OwnStatesDefault, OwnStatesDefault, <<>>)
  /\ prev = ""
  /\ origin = 0
  /\ streak = NoStreak

TitleInit(p) ==
  /\ title = TitleNew(p)
  /\ title_last = [op |-> "new", arg |-> <<p>>, pre |-> TitleNew(p), ret |-> <<>>]
  /\ title_focus_call = ""

Init ==
  \E lines \in 0..MaxRows :
    /\ LogInit(lines)
    /\ TitleInit([visible |-> TRUE, title |-> <<"Title">>])

AttrContent(n) ==
  LET r == attr(props, states, "Content", Table(n))
  IN /\ props' = r.props
     /\ states' = r.states
     /\ Observe(Call("attr", "Content", Table(n), "", states, r.states, <<>>))
     /\ UNCHANGED title_vars

AttrFocus(b) ==
  LET r == attr(props, states, "Focus", Flag(b))
  IN /\ props' = r.props
     /\ states' = r.states
     /\ Observe(Call("attr", "Focus", Flag(b), "", states, r.states, <<>>))
     /\ UNCHANGED title_vars

Perform(cmd) ==
  LET r == perform(cmd, states)
  IN /\ states' = r.states
     /\ UNCHANGED props
     /\ Observe(Call("perform", cmd, <<>>, IF cmd \in NavCmds THEN cmd ELSE "",
                     states, r.states, r.ret))
     /\ UNCHANGED title_vars

On(ev) ==
  LET r == on(ev, states)
  IN /\ states' = r.states
     /\ UNCHANGED props
     /\ Observe(Call("on", ev, <<>>, on_cmd(ev), states, r.states, r.ret))
     /\ UNCHANGED title_vars

View ==
  /\ UNCHANGED <<props, states>>
  /\ Observe(Call("view", "", <<>>, "", states, states, view(props, states)))
  /\ UNCHANGED title_vars

Next ==
  \/ \E n \in 0..MaxRows : AttrContent(n)
  \/ \E b \in BOOLEAN : AttrFocus(b)
  \/ \E cmd \in Cmds : Perform(cmd)
  \/ \E ev \in Events : On(ev)
  \/ View

Spec == Init /\ [][Next]_vars

-----------------------------------------------------------------------------
\* The Title component on its own.

\* The step of title_last for the call op(arg) that returned ret.
TitleObserve(op, arg, ret) ==
  title_last' = [op |-> op, arg |-> arg, pre |-> title, ret |-> ret]

TitleActive ==
  /\ title' = title_active(title)
  /\ TitleObserve("active", <<>>, <<>>)
  /\ title_focus_call' = "active"
  /\ UNCHANGED log_vars

TitleBlur ==
  /\ title' = title_blur(title)
  /\ TitleObserve("blur", <<>>, <<>>)
  /\ title_focus_call' = "blur"
  /\ UNCHANGED log_vars

TitleUpdate(p) ==
  /\ title' = title_update(title, p).self
  /\ TitleObserve("update", <<p>>, title_update(title, p).ret)
  /\ UNCHANGED <<title_focus_call, log_vars>>

TitleOn(ev) ==
  /\ title' = title_on(title, ev).self
  /\ TitleObserve("on", ev, title_on(title, ev).ret)
  /\ UNCHANGED <<title_focus_call, log_vars>>

TitleGetValue ==
  /\ TitleObserve("get_value", <<>>, title_get_value(title))
  /\ UNCHANGED <<title, title_focus_call, log_vars>>

TitleGetProps ==
  /\ TitleObserve("get_props", <<>>, <<title_get_props(title)>>)
  /\ UNCHANGED <<title, title_focus_call, log_vars>>

TitleRender ==
  /\ TitleObserve("render", <<>>, title_render(title))
  /\ UNCHANGED <<title, title_focus_call, log_vars>>

TitleSpecInit == \E p \in TitleProps : LogInit(0) /\ TitleInit(p)

TitleNext ==
  \/ TitleActive
  \/ TitleBlur
  \/ \E p \in TitleProps : TitleUpdate(p)
  \/ \E ev \in TitleEvents : TitleOn(ev)
  \/ TitleGetValue
  \/ TitleGetProps
  \/ TitleRender

TitleSpec == TitleSpecInit /\ [][TitleNext]_vars

-----------------------------------------------------------------------------
\* Shorthands of the properties below.

\* The last call was perform(cmd).
Performed(cmd) == last.op = "perform" /\ last.arg = cmd

\* The CmdResult perform returns when it reports the index i as changed.
ChangedTo(i) == CmdResultChanged(StateOne(i))

Min(a, b) == IF a < b THEN a ELSE b

\* a - b, or 0 when b > a.
Monus(a, b) == IF a > b THEN a - b ELSE 0

-----------------------------------------------------------------------------
\* C1: in every reachable state the selected index is below the length when
\* the length is positive, and is 0 when the length is 0.
C1_IndexInRange ==
  /\ states.list_len > 0 => states.list_index < states.list_len
  /\ states.list_len = 0 => states.list_index = 0

\* Move Down was tried at the last element of a list it had walked down.
C1_Witness ==
  /\ last.cmd = "MoveDown"
  /\ streak.changed > 0
  /\ streak.idle > 0
  /\ states.list_index = states.list_len - 1

\* C2: attr(Content, table of n rows) leaves list_len = n and list_index = 0,
\* whatever the index and the length were before.
C2_ContentResets ==
  (last.op = "attr" /\ last.arg = "Content") =>
     /\ states.list_len = unwrap_table(last.val)
     /\ states.list_index = 0
     /\ props_get(props, "Content") = <<last.val>>

\* The content was replaced by a shorter table in which the old, non-zero
\* index would still have been a valid position.
C2_Witness ==
  /\ last.op = "attr"
  /\ last.arg = "Content"
  /\ last.pre.list_index > 0
  /\ unwrap_table(last.val) < last.pre.list_len
  /\ unwrap_table(last.val) > last.pre.list_index
  /\ states.list_index = 0

\* C3: perform(Move(Down)) adds 1 to the index and returns Changed when
\* index + 1 < length, and otherwise leaves the index and returns None; on a
\* list of 3 rows walked down from index 0 the calls give 1, 2, 2 with the
\* first two changing the index and no later one.
C3_MoveDown ==
  /\ Performed("MoveDown") =>
       IF last.pre.list_index + 1 < last.pre.list_len
         THEN /\ last.post.list_index = last.pre.list_index + 1
              /\ last.ret = ChangedTo(last.pre.list_index + 1)
         ELSE /\ last.post.list_index = last.pre.list_index
              /\ last.ret = CmdResultNone
  /\ Performed("MoveDown") => last.post.list_len = last.pre.list_len
  /\ (/\ streak.cmd = "MoveDown"
      /\ streak.start.list_index = 0
      /\ streak.start.list_len = 3) =>
        /\ states.list_index = streak.changed
        /\ streak.changed <= 2
        /\ streak.idle > 0 => streak.changed = 2

\* The third of three Move Down calls on a list of 3 rows, started at index 0.
C3_Witness ==
  /\ Performed("MoveDown")
  /\ prev = "MoveDown"
  /\ streak.start.list_index = 0
  /\ streak.start.list_len = 3
  /\ streak.changed = 2
  /\ streak.idle = 1
  /\ states.list_index = 2
  /\ last.ret = CmdResultNone

\* C4: perform(Move(Up)) subtracts 1 from the index and returns Changed when
\* the index is positive; at index 0 it leaves the index at 0 and returns
\* None, for every length.
C4_MoveUp ==
  Performed("MoveUp") =>
     /\ last.post.list_len = last.pre.list_len
     /\ IF last.pre.list_index > 0
          THEN /\ last.post.list_index + 1 = last.pre.list_index
               /\ last.ret = ChangedTo(last.post.list_index)
          ELSE /\ last.post.list_index = 0
               /\ last.ret = CmdResultNone

\* Move Up was tried at index 0 after it had walked the list up.
C4_Witness ==
  /\ Performed("MoveUp")
  /\ streak.cmd = "MoveUp"
  /\ streak.changed > 0
  /\ last.pre.list_index = 0
  /\ last.ret = CmdResultNone

\* C5: on a list of n > 0 rows perform(Scroll(Down)) from index i leaves the
\* index at min(i + 8, n - 1) and returns Changed exactly when that differs
\* from i; on 20 rows it goes from 0 to 8 and from 15 to 19, both changed.
C5_ScrollDown ==
  (Performed("ScrollDown") /\ last.pre.list_len > 0) =>
     LET i == last.pre.list_index
         n == last.pre.list_len
         j == Min(i + 8, n - 1)
     IN /\ last.post.list_index = j
        /\ last.post.list_len = n
        /\ last.ret = IF j # i THEN ChangedTo(j) ELSE CmdResultNone
        /\ (n = 20 /\ i = 0) => (j = 8 /\ last.ret = ChangedTo(8))
        /\ (n = 20 /\ i = 15) => (j = 19 /\ last.ret = ChangedTo(19))

\* Scroll Down from index 15 of 20 rows, cut short at the last row.
C5_Witness ==
  /\ Performed("ScrollDown")
  /\ last.pre.list_len = 20
  /\ last.pre.list_index = 15
  /\ states.list_index = 19
  /\ last.ret = ChangedTo(19)

\* k consecutive perform(cmd) calls from the states s: the states they leave
\* and whether any of them returned Changed.
RECURSIVE Repeated(_, _, _)
Repeated(cmd, k, s) ==
  IF k = 0
    THEN [states |-> s, any |-> FALSE]
    ELSE LET r == perform(cmd, s)
             rest == Repeated(cmd, k - 1, r.states)
         IN [states |-> rest.states,
             any |-> (r.ret # CmdResultNone) \/ rest.any]

\* C6: perform(Scroll(d)) leaves the states 8 consecutive perform(Move(d))
\* leave from the same states, and returns Changed exactly when one of those
\* 8 would; Scroll(Up) leaves the index at max(index - 8, 0).  A run of 8
\* Move calls made on the component ends where Scroll from its start ends.
C6_ScrollIsEightMoves ==
  /\ Performed("ScrollDown") =>
       LET m == Repeated("MoveDown", 8, last.pre)
       IN /\ last.post = m.states
          /\ (last.ret # CmdResultNone) <=> m.any
  /\ Performed("ScrollUp") =>
       LET m == Repeated("MoveUp", 8, last.pre)
       IN /\ last.post = m.states
          /\ (last.ret # CmdResultNone) <=> m.any
          /\ last.post.list_index = Monus(last.pre.list_index, 8)
  /\ (streak.cmd = "MoveDown" /\ streak.idle < MaxIdle
        /\ streak.changed + streak.idle = 8) =>
       states = perform("ScrollDown", streak.start).states
  /\ (streak.cmd = "MoveUp" /\ streak.idle < MaxIdle
        /\ streak.changed + streak.idle = 8) =>
       states = perform("ScrollUp", streak.start).states

\* Scroll Up from an index below 8, cut short at index 0.
C6_Witness ==
  /\ Performed("ScrollUp")
  /\ last.pre.list_index > 0
  /\ last.pre.list_index < 8
  /\ states.list_index = 0
  /\ last.ret = ChangedTo(0)

\* C7: perform(GoTo(End)) sets the index to length - 1, or to 0 on an empty
\* list, and returns Changed exactly when the index differs from the one
\* before; on an empty list it returns None, and so does the second of two
\* consecutive calls.
C7_GoToEnd ==
  Performed("GoToEnd") =>
     LET n == last.pre.list_len
         j == IF n > 0 THEN n - 1 ELSE 0
     IN /\ last.post.list_index = j
        /\ last.post.list_len = n
        /\ last.ret = IF j # last.pre.list_index THEN ChangedTo(j) ELSE CmdResultNone
        /\ n = 0 => (states.list_index = 0 /\ last.ret = CmdResultNone)
        /\ prev = "GoToEnd" => last.ret = CmdResultNone

\* The second of two consecutive GoTo End calls, the first of which moved the
\* index.
C7_Witness ==
  /\ Performed("GoToEnd")
  /\ prev = "GoToEnd"
  /\ streak.cmd = "GoToEnd"
  /\ streak.changed = 1
  /\ streak.idle = 1
  /\ states.list_index = states.list_len - 1
  /\ last.ret = CmdResultNone

\* C8: perform(GoTo(Begin)) sets the index to 0 and returns Changed exactly
\* when the index was not 0; GoTo Begin followed by GoTo End on a list of 5
\* rows gives the indices 0 and 4.
C8_GoToBegin ==
  /\ Performed("GoToBegin") =>
       /\ last.post.list_index = 0
       /\ last.post.list_len = last.pre.list_len
       /\ last.ret = IF last.pre.list_index # 0 THEN ChangedTo(0) ELSE CmdResultNone
  /\ (Performed("GoToEnd") /\ prev = "GoToBegin" /\ last.pre.list_len = 5) =>
       /\ last.pre.list_index = 0
       /\ last.post.list_index = 4
       /\ last.ret = ChangedTo(4)

\* GoTo End right after GoTo Begin, on a list of 5 rows.
C8_Witness ==
  /\ Performed("GoToEnd")
  /\ prev = "GoToBegin"
  /\ last.pre.list_len = 5
  /\ last.pre.list_index = 0
  /\ states.list_index = 4

\* C9: perform returns Changed exactly when the index after the command
\* differs from the index before it, a Changed result carries the value of
\* state() after the command, and every other call (a command outside the
\* six included) returns None and leaves index and length as they were.
C9_ChangedIffMoved ==
  last.op = "perform" =>
     /\ last.post = states
     /\ last.post.list_len = last.pre.list_len
     /\ IF last.post.list_index # last.pre.list_index
          THEN last.ret = CmdResultChanged(state(states))
          ELSE last.ret = CmdResultNone /\ last.post = last.pre
     /\ last.arg \notin NavCmds => (last.ret = CmdResultNone /\ last.post = last.pre)

\* A command outside the six, performed away from index 0.
C9_Witness ==
  /\ Performed("Submit")
  /\ last.pre.list_index > 0
  /\ last.ret = CmdResultNone
  /\ states = last.pre

\* C10 as stated: a navigation key handed to on gives the no-op signal
\* (Msg::None) exactly when it did not change the index, and another signal,
\* telling the new index, when it did.
C10_SignalTellsChange ==
  (last.op = "on" /\ last.arg \in NavKeys) =>
     (last.ret = SomeMsgNone <=> last.post.list_index = last.pre.list_index)

\* C10, amended: a navigation key handed to on performs its command and
\* returns Some(Msg::None) whether or not the index changed; the CmdResult of
\* perform does not reach the caller.
C10_AlwaysMsgNone ==
  (last.op = "on" /\ last.arg \in NavKeys) =>
     /\ last.ret = SomeMsgNone
     /\ last.post = perform(on_cmd(last.arg), last.pre).states

\* A navigation key that moved the index and returned Some(Msg::None).
C10_Witness ==
  /\ last.op = "on"
  /\ last.arg = "PageUp"
  /\ last.post.list_index # last.pre.list_index
  /\ last.ret = SomeMsgNone

\* C11: Tab handed to on returns Some(Msg::Ui(UiMsg::LogTabbed)), which no
\* navigation key returns, and leaves index, length and content as they were;
\* an event that is neither a navigation key nor Tab returns no message and
\* leaves them as they were too.
C11_TabAndOtherEvents ==
  /\ [](last.op = "on" =>
          /\ last.arg = "Tab" => last.ret = SomeLogTabbed
          /\ last.arg \in NavKeys => last.ret # SomeLogTabbed
          /\ last.arg \notin NavKeys \cup {"Tab"} => last.ret = NoMsg
          /\ last.arg \notin NavKeys => last.post = last.pre)
  /\ [][(last'.op = "on" /\ last'.arg \notin NavKeys) =>
          (states' = states /\ props' = props /\ last'.pre = states)]_vars

\* Tab was pressed away from index 0.
C11_Witness ==
  /\ last.op = "on"
  /\ last.arg = "Tab"
  /\ last.ret = SomeLogTabbed
  /\ states.list_index > 0
  /\ states = last.pre

\* The rows of the content the component holds.
ContentRows == unwrap_table(props_get(props, "Content")[1])

\* C12: in every reachable state, from Log::new(lines, ..) on, list_len is the
\* number of rows of the content held.
C12_LenIsContentRows == states.list_len = ContentRows

\* C13: perform, on and attr of an attribute other than Content leave
\* list_len as it was, and attr of an attribute other than Content leaves
\* list_index as it was too.
C13_OnlyContentSetsLen ==
  /\ last.op \in {"perform", "on", "attr"} => last.post = states
  /\ last.op \in {"perform", "on"} => last.post.list_len = last.pre.list_len
  /\ (last.op = "attr" /\ last.arg # "Content") =>
       /\ last.post.list_len = last.pre.list_len
       /\ last.post.list_index = last.pre.list_index

\* The Focus attribute was set on a list walked away from index 0.
C13_Witness ==
  /\ last.op = "attr"
  /\ last.arg = "Focus"
  /\ last.pre.list_index > 0
  /\ states = last.pre

\* C14 as stated: whenever a call changes the index, the call performed one
\* of the six navigation commands.
C14_OnlyNavigationMovesIndex ==
  last.post.list_index # last.pre.list_index => last.cmd \in NavCmds

\* C14, amended: whenever a call changes the index, the call performed one of
\* the six navigation commands or replaced the content, which sets the index
\* to 0.
C14_NavigationOrContentMovesIndex ==
  /\ last.post = states
  /\ last.post.list_index # last.pre.list_index =>
       \/ last.cmd \in NavCmds
       \/ last.op = "attr" /\ last.arg = "Content" /\ states.list_index = 0

\* A content replacement moved the index to 0.
C14_Witness ==
  /\ last.op = "attr"
  /\ last.arg = "Content"
  /\ last.pre.list_index > 0
  /\ states.list_index = 0
  /\ states.list_len > 0

\* C17: on maps the keys against their names: Up performs Move Down, Down
\* performs Move Up, PageUp performs Scroll Down, PageDown performs Scroll Up,
\* Home performs GoTo End and End performs GoTo Begin, one command per key.
C17_KeysInverted ==
  (last.op = "on" /\ last.arg \in NavKeys) =>
     LET i == last.pre.list_index
         n == last.pre.list_len
         j == last.post.list_index
     IN /\ last.post = states
        /\ last.post.list_len = n
        /\ last.arg = "Up" => j = (IF i + 1 < n THEN i + 1 ELSE i)
        /\ last.arg = "Down" => j = Monus(i, 1)
        /\ last.arg = "PageUp" => j = (IF n > 0 THEN Min(i + 8, n - 1) ELSE i)
        /\ last.arg = "PageDown" => j = Monus(i, 8)
        /\ last.arg = "Home" => j = Monus(n, 1)
        /\ last.arg = "End" => j = 0

\* The Up key moved the index up by one.
C17_Witness ==
  /\ last.op = "on"
  /\ last.arg = "Up"
  /\ last.pre.list_index > 0
  /\ states.list_index = last.pre.list_index + 1

\* C18: whenever the content held is not empty, the index returned by state()
\* and selected in the list view hands to the renderer is below the number of
\* rows of the content, directly after Log::new too.
C18_IndexIsContentRow ==
  /\ ContentRows > 0 =>
       /\ get_list_index(states) < ContentRows
       /\ \E i \in 0..(ContentRows - 1) : state(states) = StateOne(i)
  /\ (last.op = "view" /\ last.ret.items > 0) =>
       /\ last.ret.items = ContentRows
       /\ last.ret.selected = <<states.list_index>>
       /\ last.ret.selected[1] < last.ret.items

\* The view is drawn directly after Log::new with a non-empty table, while
\* list_len is still 0.
C18_Witness ==
  /\ last.op = "view"
  /\ last.ret.items > 0
  /\ states.list_len = 0
  /\ last.ret.selected = <<0>>

\* C19: a Move Down that changed the index, followed at once by Move Up, ends
\* at the index the Move Down started from, and that Move Up reports changed;
\* likewise a Move Up that changed the index followed at once by Move Down;
\* the length stays as it was.
C19_MovesAreInverse ==
  /\ (prev = "MoveDown" /\ last.cmd = "MoveUp" /\ last.pre.list_index # origin) =>
       /\ last.pre.list_index = origin + 1
       /\ states.list_index = origin
       /\ last.post.list_len = last.pre.list_len
       /\ last.op = "perform" => last.ret = ChangedTo(origin)
  /\ (prev = "MoveUp" /\ last.cmd = "MoveDown" /\ last.pre.list_index # origin) =>
       /\ last.pre.list_index + 1 = origin
       /\ states.list_index = origin
       /\ last.post.list_len = last.pre.list_len
       /\ last.op = "perform" => last.ret = ChangedTo(origin)

\* Move Up right after a Move Down that had moved the index from 2 to 3.
C19_Witness ==
  /\ prev = "MoveDown"
  /\ Performed("MoveUp")
  /\ origin = 2
  /\ last.pre.list_index = 3
  /\ states.list_index = 2
  /\ last.ret = ChangedTo(2)

\* C20: on a list of n > 0 rows a run of Move Down calls started at index i
\* moves the index by one per call until it is n - 1, which takes n - 1 - i
\* calls, all reporting changed, and every later call leaves it at n - 1 and
\* reports not changed; a run of Move Up calls does the same down to 0 in i
\* calls.  So a run reaches every index between its start and the end.
C20_RunsReachTheEnds ==
  LET i == streak.start.list_index
      n == streak.start.list_len
  IN /\ (streak.cmd = "MoveDown" /\ n > 0) =>
          /\ states.list_len = n
          /\ states.list_index = i + streak.changed
          /\ streak.changed <= n - 1 - i
          /\ streak.idle > 0 =>
               (streak.changed = n - 1 - i /\ states.list_index = n - 1)
          /\ (last.op = "perform" /\ last.pre.list_index = n - 1) =>
               last.ret = CmdResultNone
          /\ (last.op = "perform" /\ last.pre.list_index < n - 1) =>
               last.ret = ChangedTo(last.pre.list_index + 1)
     /\ (streak.cmd = "MoveUp" /\ n > 0) =>
          /\ states.list_len = n
          /\ states.list_index + streak.changed = i
          /\ streak.idle > 0 => (streak.changed = i /\ states.list_index = 0)
          /\ (last.op = "perform" /\ last.pre.list_index = 0) =>
               last.ret = CmdResultNone
          /\ (last.op = "perform" /\ last.pre.list_index > 0) =>
               last.ret = ChangedTo(last.pre.list_index - 1)

\* A run of Move Down calls walked a list of 10 rows from index 0 to its last
\* row and was then continued without effect.
C20_Witness ==
  /\ streak.cmd = "MoveDown"
  /\ streak.start.list_index = 0
  /\ streak.start.list_len = 10
  /\ streak.changed = 9
  /\ streak.idle = MaxIdle
  /\ states.list_index = 9
  /\ Performed("MoveDown")
  /\ last.ret = CmdResultNone

\* C15: a new Title is not in focus; after any calls of active, blur, update,
\* on and get_value it is in focus exactly when active or blur was called and
\* the last of them was active; update, on and get_value leave the flag alone.
C15_TitleFocus ==
  /\ title.states.focus <=> title_focus_call = "active"
  /\ title_last.op = "new" => ~title.states.focus
  /\ title_last.op \in {"update", "on", "get_value"} =>
       title.states = title_last.pre.states

\* The props of a Title in focus were updated.
C15_Witness ==
  /\ title_last.op = "update"
  /\ title_last.arg # <<title_last.pre.props>>
  /\ title_focus_call = "active"
  /\ title.states.focus

====
